---- MODULE Spec2Model ----
(***************************************************************************)
(* Model of the CPF Info Verification Bot: document ingestion and the      *)
(* Chroma index on disk (ingest.py), the RAG pipeline (rag.py), the        *)
(* rebuild command (rebuild_vectorstore.py), the admin password check      *)
(* (utils/security.py) and the Streamlit script runs that drive them       *)
(* (streamlit_app.py).                                                     *)
(*                                                                         *)
(* A text is represented by its length in characters; a chunk by the span  *)
(* of its document's text it covers.  The embedding backend and the        *)
(* language model are inputs of the actions: each call either succeeds or  *)
(* raises.  A Chroma handle reads the index storage location; every handle *)
(* of the same persist directory reads the same collection.                *)
(***************************************************************************)
EXTENDS Integers, Sequences, FiniteSets, TLC

VARIABLES
    api_key,        \* whether OPENAI_API_KEY is configured
    admin_secret,   \* [st, env]: admin_password secret and CPF_ADMIN_PASSWORD
    sample_docs,    \* SAMPLE_DOCS_DIR: file name -> file
    uploads,        \* UPLOADS_DIR: file name -> file
    vector_dir,     \* VECTOR_DIR: [exists, sqlite, entries]
    session,        \* st.session_state of each browser session
    build,          \* a build_vector_store call in progress, step by step
    last            \* what the most recent operation did and returned

vars == <<api_key, admin_secret, sample_docs, uploads, vector_dir, session, build, last>>

-----------------------------------------------------------------------------
(* Program constants *)

CHUNK_SIZE == 800
CHUNK_OVERLAP == 100
DEFAULT_TOP_K == 4
MIN_TOP_K == 2

(* Bounds of the model *)

\* length of the longest text a file holds
MaxTextLen == 1200

None == "None"

Sessions == {"s1", "s2"}
SampleNames == {"faq1.md"}
UploadNames == {"faq2.txt"}
SampleOrder == <<"faq1.md">>
UploadOrder == <<"faq2.txt">>

\* texts of the files: empty, one chunk, more than one chunk
TextLens == {0, 500, MaxTextLen}

AbsentFile == [present |-> FALSE, readable |-> FALSE, length |-> 0]
CorruptFile == [present |-> TRUE, readable |-> FALSE, length |-> 0]
TextFile(n) == [present |-> TRUE, readable |-> TRUE, length |-> n]

\* what an uploaded file can hold: any bytes under an allowed suffix
UploadedFiles == {CorruptFile} \cup {TextFile(n) : n \in TextLens}

Questions == {"", "withdrawal age"}
TopKs == {MIN_TOP_K, DEFAULT_TOP_K}
\* the source names the model's answer text mentions
Answers == {{"faq1.md"}, {"bogus.md"}}
Entered == {"", "adminpw", "guess"}
Backend == {"ok", "unavailable"}

Min(a, b) == IF a < b THEN a ELSE b
Range(s) == {s[i] : i \in DOMAIN s}

-----------------------------------------------------------------------------
(* ingest.py *)

\* _load_file: the Document of one readable file
_load_file(dir, name, file) ==
    [source |-> name, relative_path |-> <<dir, name>>, length |-> file.length]

RECURSIVE LoadDir(_, _, _)
LoadDir(dir, order, files) ==
    IF order = <<>> THEN <<>>
    ELSE LET name == Head(order)
             rest == LoadDir(dir, Tail(order), files)
         IN IF files[name].present
               THEN <<_load_file(dir, name, files[name])>> \o rest
               ELSE rest

Unreadable(files) == \E n \in DOMAIN files : files[n].present /\ ~files[n].readable

\* a bug: the uploads directory is not read
LoadSampleOnly(sd, up) ==
    IF Unreadable(sd)
       THEN [raised |-> TRUE, docs |-> <<>>]
       ELSE [raised |-> FALSE, docs |-> LoadDir("sample_docs", SampleOrder, sd)]

\* load_documents: reading a file that cannot be decoded or parsed raises
\* out of the loop, no document is returned
load_documents(sd, up) ==
    IF Unreadable(sd) \/ Unreadable(up)
       THEN [raised |-> TRUE, docs |-> <<>>]
       ELSE [raised |-> FALSE,
             docs |-> LoadDir("sample_docs", SampleOrder, sd)
                      \o LoadDir("uploads", UploadOrder, up)]

\* the windows of one text: at most CHUNK_SIZE long, consecutive windows
\* share CHUNK_OVERLAP characters; an empty text has no window
RECURSIVE Windows(_, _)
Windows(from, length) ==
    IF length = 0 THEN <<>>
    ELSE LET to == Min(from + CHUNK_SIZE, length)
         IN IF to = length THEN <<(<<from, to>>)>>
            ELSE <<(<<from, to>>)>> \o Windows(to - CHUNK_OVERLAP, length)

SplitOne(doc) ==
    LET w == Windows(0, doc.length)
    IN [i \in DOMAIN w |->
          [source |-> doc.source, relative_path |-> doc.relative_path,
           page_content |-> <<doc.source, doc.length, w[i][1], w[i][2]>>]]

RECURSIVE _split_documents(_)
_split_documents(documents) ==
    IF documents = <<>> THEN <<>>
    ELSE SplitOne(Head(documents)) \o _split_documents(Tail(documents))


\* _embedder + Chroma(...): opening the persist directory creates
\* chroma.sqlite3 and the collection when they are missing
Chroma(vd) == [vd EXCEPT !.exists = TRUE, !.sqlite = TRUE]

\* shutil.rmtree(VECTOR_DIR)
rmtree(vd) == [exists |-> FALSE, sqlite |-> FALSE, entries |-> <<>>]

\* VECTOR_DIR.mkdir(parents=True, exist_ok=True)
mkdir(vd) == [vd EXCEPT !.exists = TRUE]

\* the collection after add_texts: every chunk is stored under a fresh id
add_texts(vd, chunks) == [vd EXCEPT !.entries = @ \o chunks]

\* a bug: the old directory is kept and the new chunks are added to it
KeepVectorDir(vd) == mkdir(vd)

\* build_vector_store, lines 88-90: delete the storage location, recreate it
ResetVectorDir(vd) == mkdir(IF vd.exists THEN rmtree(vd) ELSE vd)

\* ensure_directories (the data directories always exist afterwards)
ensure_directories(vd) == mkdir(vd)

\* build_vector_store, line 83: "if not documents"
HasDocuments(documents) == documents # <<>>

\* build_vector_store.  embed is the embedding backend's answer to
\* Chroma.from_documents; adding an empty list of chunks either raises in
\* the library or leaves an empty collection, both after the directory was
\* reset.
build_vector_store(sd, up, vd, embed) ==
    LET lo == load_documents(sd, up)
    IN IF lo.raised
          THEN [result |-> "LoadError", vector_dir |-> vd,
                n_documents |-> 0, chunks |-> <<>>, reset |-> FALSE]
       ELSE IF ~HasDocuments(lo.docs)
          THEN [result |-> "ValueError", vector_dir |-> vd,
                n_documents |-> 0, chunks |-> <<>>, reset |-> FALSE]
       ELSE LET chunks == _split_documents(lo.docs)
                opened == Chroma(ResetVectorDir(vd))
            IN IF embed = "unavailable"
                  THEN [result |-> "BackendError", vector_dir |-> opened,
                        n_documents |-> Len(lo.docs), chunks |-> chunks,
                        reset |-> TRUE]
                  ELSE [result |-> "ok", vector_dir |-> add_texts(opened, chunks),
                        n_documents |-> Len(lo.docs), chunks |-> chunks,
                        reset |-> TRUE]

\* load_vector_store: None unless chroma.sqlite3 exists
load_vector_store(vd) == IF vd.sqlite THEN "store" ELSE None

-----------------------------------------------------------------------------
(* utils/security.py *)

Truthy(v) == v # None /\ v # ""

\* _get_secret: "secret or os.getenv(env_var)"
_get_secret(cfg) == IF Truthy(cfg.st) THEN cfg.st ELSE cfg.env

admin_password_configured(cfg) == _get_secret(cfg) # None

verify_admin_password(cfg, value) ==
    LET secret == _get_secret(cfg)
    IN IF ~Truthy(secret) THEN FALSE ELSE value = secret

-----------------------------------------------------------------------------
(* rag.py *)

NoPipeline == [ready |-> FALSE, vector_store |-> 0]

\* a Chroma object that is not the object `old`
FreshStore(old) == IF old = 1 THEN 2 ELSE 1

\* the question's nearest chunks first: chunks of the source the question
\* is about, then the others, each group in the order of the collection
Topic(question) == "faq1.md"

Nearest(entries, question) ==
    SelectSeq(entries, LAMBDA c : c.source = Topic(question))
    \o SelectSeq(entries, LAMBDA c : c.source # Topic(question))

\* _get_documents: the top_k nearest chunks of the collection
_get_documents(entries, question, top_k) ==
    LET near == Nearest(entries, question)
    IN SubSeq(near, 1, Min(top_k, Len(near)))

NoResponse == [answer |-> {}, citations |-> <<>>, source_documents |-> <<>>]

\* a bug: the citations are the sources the answer text mentions
CitationsFromAnswer(documents, answer) ==
    LET mentioned == SelectSeq(documents, LAMBDA d : d.source \in answer)
    IN [i \in DOMAIN mentioned |-> mentioned[i].source]

\* query, line 81: the citations of a response
Citations(documents, answer) ==
    [i \in DOMAIN documents |-> documents[i].source]

\* a bug: the language model is asked again when it fails
InvokeLlmRetry(llm) ==
    IF llm = "unavailable" THEN [raised |-> TRUE, calls |-> 2]
                           ELSE [raised |-> FALSE, calls |-> 1]

\* self.llm.invoke(messages): one call, which returns or raises
InvokeLlm(llm) == [raised |-> llm = "unavailable", calls |-> 1]

\* a bug: the model is asked although nothing was retrieved
NeverEmpty(documents) == FALSE

\* query, line 64: "if not documents"
NoDocuments(documents) == documents = <<>>

\* RAGPipeline.query
query(entries, question, top_k, retr, llm, answer) ==
    IF retr = "unavailable"
       THEN [result |-> "EmbeddingError", documents |-> <<>>,
             retrieval_calls |-> 1, llm_calls |-> 0, response |-> NoResponse]
    ELSE LET documents == _get_documents(entries, question, top_k)
         IN IF NoDocuments(documents)
               THEN [result |-> "ValueError", documents |-> documents,
                     retrieval_calls |-> 1, llm_calls |-> 0, response |-> NoResponse]
            ELSE LET call == InvokeLlm(llm)
                 IN IF call.raised
                       THEN [result |-> "GenerationError", documents |-> documents,
                             retrieval_calls |-> 1, llm_calls |-> call.calls,
                             response |-> NoResponse]
                       ELSE [result |-> "ok", documents |-> documents,
                             retrieval_calls |-> 1, llm_calls |-> call.calls,
                             response |->
                               [answer |-> answer,
                                citations |-> Citations(documents, answer),
                                source_documents |->
                                  [i \in DOMAIN documents |-> documents[i].page_content]]]

NothingToSummarize == "No documents available to summarize."

\* a bug: no short-circuit, the language model is asked to summarize nothing
SummarizeAsksAnyway(entries, question, top_k, retr, llm) ==
    IF retr = "unavailable"
       THEN [result |-> "EmbeddingError", llm_calls |-> 0, summary |-> None]
    ELSE LET call == InvokeLlm(llm)
         IN IF call.raised
               THEN [result |-> "GenerationError", llm_calls |-> call.calls,
                     summary |-> None]
               ELSE [result |-> "ok", llm_calls |-> call.calls,
                     summary |-> "summary"]

\* RAGPipeline.summarize_sources
summarize_sources(entries, question, top_k, retr, llm) ==
    IF retr = "unavailable"
       THEN [result |-> "EmbeddingError", llm_calls |-> 0, summary |-> None]
    ELSE LET documents == _get_documents(entries, question, top_k)
         IN IF documents = <<>>
               THEN [result |-> "ok", llm_calls |-> 0, summary |-> NothingToSummarize]
            ELSE LET call == InvokeLlm(llm)
                 IN IF call.raised
                       THEN [result |-> "GenerationError", llm_calls |-> call.calls,
                             summary |-> None]
                       ELSE [result |-> "ok", llm_calls |-> call.calls,
                             summary |-> "summary"]

\* RAGPipeline.__init__, line 43: "if store is None" does not hold
StoreLoaded(vd) == load_vector_store(vd) # None

\* RAGPipeline.__init__: load the store, build it when there is none
RAGPipeline(sd, up, vd, embed) ==
    LET ensured == ensure_directories(vd)
    IN IF StoreLoaded(ensured)
          THEN [result |-> "ok", vector_dir |-> Chroma(ensured), built |-> FALSE,
                n_documents |-> 0, chunks |-> <<>>]
          ELSE LET b == build_vector_store(sd, up, ensured, embed)
               IN [result |-> b.result, vector_dir |-> b.vector_dir, built |-> TRUE,
                   n_documents |-> b.n_documents, chunks |-> b.chunks]


\* a bug: the handle is replaced although the build raised
RefreshAlwaysReplaces(pipeline, b) ==
    [pipeline EXCEPT !.vector_store = FreshStore(@)]

\* RAGPipeline.refresh_store: the handle is assigned when the build returns
refresh_store(pipeline, b) ==
    IF b.result = "ok" THEN [pipeline EXCEPT !.vector_store = FreshStore(@)]
                       ELSE pipeline

-----------------------------------------------------------------------------
(* streamlit_app.py *)

EmptyDir == [exists |-> FALSE, sqlite |-> FALSE, entries |-> <<>>]

\* a bug: the pipeline object is kept in the session although its
\* construction raised
InitPipelineKeepsFailed(key, sess, sd, up, vd, embed) ==
    IF ~key
       THEN [pipeline |-> NoPipeline, result |-> "MissingKey", vector_dir |-> vd,
             constructed |-> None, chunks |-> <<>>]
    ELSE IF sess.pipeline.ready
       THEN [pipeline |-> sess.pipeline, result |-> "ok", vector_dir |-> vd,
             constructed |-> None, chunks |-> <<>>]
    ELSE LET c == RAGPipeline(sd, up, vd, embed)
         IN [pipeline |-> [ready |-> TRUE, vector_store |-> FreshStore(0)],
             result |-> c.result, vector_dir |-> c.vector_dir,
             constructed |-> IF c.built THEN "built" ELSE "loaded",
             chunks |-> c.chunks]

\* _init_pipeline: the session's pipeline, constructed on its first run.
\* An exception of the constructor leaves the session without a pipeline.
_init_pipeline(key, sess, sd, up, vd, embed) ==
    IF ~key
       THEN [pipeline |-> NoPipeline, result |-> "MissingKey", vector_dir |-> vd,
             constructed |-> None, chunks |-> <<>>]
    ELSE IF sess.pipeline.ready
       THEN [pipeline |-> sess.pipeline, result |-> "ok", vector_dir |-> vd,
             constructed |-> None, chunks |-> <<>>]
    ELSE LET c == RAGPipeline(sd, up, vd, embed)
         IN [pipeline |-> IF c.result = "ok"
                             THEN [ready |-> TRUE, vector_store |-> FreshStore(0)]
                             ELSE NoPipeline,
             result |-> c.result, vector_dir |-> c.vector_dir,
             constructed |-> IF c.built THEN "built" ELSE "loaded",
             chunks |-> c.chunks]

\* a bug: the tools are rendered without the authentication check
AdminToolsUnguarded(cfg, sess) == admin_password_configured(cfg)

\* _render_admin_panel, lines 229-241: the document tools are reached only
\* with a configured admin password and an authenticated session
AdminToolsReached(cfg, sess) ==
    admin_password_configured(cfg) /\ sess.admin_authenticated

\* _save_uploaded_file
_save_uploaded_file(up, name, file) == [up EXCEPT ![name] = file]

Blank ==
    [op |-> "none", session |-> None, init |-> None, constructed |-> None,
     result |-> None, build_ran |-> FALSE, build_result |-> None,
     build_chunks |-> <<>>, before |-> EmptyDir,
     question |-> "", top_k |-> 0, documents |-> <<>>, response |-> NoResponse,
     retrieval_calls |-> 0, llm_calls |-> 0,
     summary |-> None, summary_llm_calls |-> 0, entered |-> None]

\* the start of every run of page_bot in session s
Started(op, s, ip) ==
    [Blank EXCEPT !.op = op, !.session = s, !.init = ip.result,
                  !.constructed = ip.constructed,
                  !.build_ran = ip.constructed = "built",
                  !.build_result = IF ip.constructed = "built" THEN ip.result ELSE None,
                  !.build_chunks = ip.chunks,
                  !.before = IF ip.constructed = "built"
                                THEN ensure_directories(vector_dir) ELSE EmptyDir]

\* the embedding backend is asked only when a pipeline is constructed
InitBackend(s) == IF api_key /\ ~session[s].pipeline.ready THEN Backend ELSE {"ok"}

InitOf(s, embed) ==
    _init_pipeline(api_key, session[s], sample_docs, uploads, vector_dir, embed)

\* page_bot returns (or the constructor's exception ends the run) before
\* any panel is rendered
NoPanel(op, s, ip) ==
    /\ ~ip.pipeline.ready
    /\ vector_dir' = ip.vector_dir
    /\ session' = [session EXCEPT ![s].pipeline = ip.pipeline]
    /\ last' = Started(op, s, ip)
    /\ UNCHANGED <<api_key, admin_secret, sample_docs, uploads, build>>


\* the answers of the backends during one "Ask CPF Bot" run: retrieval and
\* the language model for query, then for summarize_sources when the
\* "Add evidence summary" box is ticked and query returned
AskWorlds ==
    {[retr |-> "unavailable", llm |-> "ok", answer |-> {}, summarize |-> FALSE,
      retr2 |-> "ok", llm2 |-> "ok"],
     [retr |-> "ok", llm |-> "unavailable", answer |-> {}, summarize |-> FALSE,
      retr2 |-> "ok", llm2 |-> "ok"]}
    \cup {[retr |-> "ok", llm |-> "ok", answer |-> a, summarize |-> FALSE,
           retr2 |-> "ok", llm2 |-> "ok"] : a \in Answers}
    \cup {[retr |-> "ok", llm |-> "ok", answer |-> {"faq1.md"}, summarize |-> TRUE,
           retr2 |-> w[1], llm2 |-> w[2]] :
            w \in {<<"unavailable", "ok">>, <<"ok", "unavailable">>, <<"ok", "ok">>}}

\* the widget values of one "Ask CPF Bot" click: a blank question is
\* rejected before anything is asked of a backend
AskInputs ==
    {[question |-> "", top_k |-> DEFAULT_TOP_K, world |-> w] :
        w \in {CHOOSE x \in AskWorlds : x.retr = "unavailable"}}
    \cup {[question |-> q, top_k |-> k, world |-> w] :
            q \in Questions \ {""}, k \in TopKs, w \in AskWorlds}

\* a run without any widget event (the page is opened or reloaded)
Open(s) ==
    \E embed \in InitBackend(s) :
    \E ip \in {InitOf(s, embed)} :
       \/ NoPanel("open", s, ip)
       \/ /\ ip.pipeline.ready
          /\ vector_dir' = ip.vector_dir
          /\ session' = [session EXCEPT ![s].pipeline = ip.pipeline]
          /\ last' = [Started("open", s, ip) EXCEPT !.result = "rendered"]
          /\ UNCHANGED <<api_key, admin_secret, sample_docs, uploads, build>>

NoSummary == [result |-> None, llm_calls |-> 0, summary |-> None]

NoQuery ==
    [result |-> None, documents |-> <<>>, retrieval_calls |-> 0, llm_calls |-> 0,
     response |-> NoResponse]

\* _render_user_panel, lines 185-203: the outcome of one click
Asked(run, in, q, sm) ==
    IF in.question = ""
       THEN [run EXCEPT !.question = in.question, !.top_k = in.top_k,
                        !.result = "blank"]
       ELSE [run EXCEPT !.question = in.question, !.top_k = in.top_k,
                        !.result = q.result,
                        !.documents = q.documents,
                        !.response = q.response,
                        !.retrieval_calls = q.retrieval_calls,
                        !.llm_calls = q.llm_calls,
                        !.summary = IF sm.result = "ok" THEN sm.summary
                                                        ELSE sm.result,
                        !.summary_llm_calls = sm.llm_calls]

\* _render_user_panel with "Ask CPF Bot" clicked
Ask(s) ==
    \E embed \in InitBackend(s), in \in AskInputs :
    \E ip \in {InitOf(s, embed)} :
       \/ NoPanel("ask", s, ip)
       \/ /\ ip.pipeline.ready
          /\ vector_dir' = ip.vector_dir
          /\ session' = [session EXCEPT ![s].pipeline = ip.pipeline]
          /\ \E q \in {IF in.question = "" THEN NoQuery
                       ELSE query(ip.vector_dir.entries, in.question, in.top_k,
                                  in.world.retr, in.world.llm, in.world.answer)} :
             \E sm \in {IF in.question # "" /\ q.result = "ok" /\ in.world.summarize
                           THEN summarize_sources(ip.vector_dir.entries, in.question,
                                                  in.top_k, in.world.retr2,
                                                  in.world.llm2)
                           ELSE NoSummary} :
                last' = Asked(Started("ask", s, ip), in, q, sm)
          /\ UNCHANGED <<api_key, admin_secret, sample_docs, uploads, build>>

\* _render_admin_panel with "Unlock admin tools" clicked
Unlock(s) ==
    \E embed \in InitBackend(s), password \in Entered :
    \E ip \in {InitOf(s, embed)} :
    \E run \in {[Started("unlock", s, ip) EXCEPT !.entered = password]} :
       \/ NoPanel("unlock", s, ip)
       \/ /\ ip.pipeline.ready
          /\ vector_dir' = ip.vector_dir
          /\ IF ~admin_password_configured(admin_secret)
                THEN /\ session' = [session EXCEPT ![s].pipeline = ip.pipeline]
                     /\ last' = [run EXCEPT !.result = "not configured"]
             ELSE IF session[s].admin_authenticated
                THEN /\ session' = [session EXCEPT ![s].pipeline = ip.pipeline]
                     /\ last' = [run EXCEPT !.result = "no such button"]
             ELSE IF verify_admin_password(admin_secret, password)
                THEN /\ session' = [session EXCEPT ![s].pipeline = ip.pipeline,
                                                   ![s].admin_authenticated = TRUE]
                     /\ last' = [run EXCEPT !.result = "unlocked"]
                ELSE /\ session' = [session EXCEPT ![s].pipeline = ip.pipeline]
                     /\ last' = [run EXCEPT !.result = "incorrect"]
          /\ UNCHANGED <<api_key, admin_secret, sample_docs, uploads, build>>

\* _render_admin_panel with "Log out" clicked
Logout(s) ==
    \E embed \in InitBackend(s) :
    \E ip \in {InitOf(s, embed)} :
    \E run \in {Started("logout", s, ip)} :
       \/ NoPanel("logout", s, ip)
       \/ /\ ip.pipeline.ready
          /\ vector_dir' = ip.vector_dir
          /\ IF AdminToolsReached(admin_secret, session[s])
                THEN /\ session' = [session EXCEPT ![s].pipeline = ip.pipeline,
                                                   ![s].admin_authenticated = FALSE]
                     /\ last' = [run EXCEPT !.result = "logged out"]
                ELSE /\ session' = [session EXCEPT ![s].pipeline = ip.pipeline]
                     /\ last' = [run EXCEPT !.result = "locked"]
          /\ UNCHANGED <<api_key, admin_secret, sample_docs, uploads, build>>

\* _render_admin_panel with a file in the uploader
Upload(s) ==
    \E embed \in InitBackend(s), name \in UploadNames, file \in UploadedFiles :
    \E ip \in {InitOf(s, embed)} :
    \E run \in {Started("upload", s, ip)} :
       \/ NoPanel("upload", s, ip)
       \/ /\ ip.pipeline.ready
          /\ session' = [session EXCEPT ![s].pipeline = ip.pipeline]
          /\ IF AdminToolsReached(admin_secret, session[s])
                THEN /\ vector_dir' = ensure_directories(ip.vector_dir)
                     /\ uploads' = _save_uploaded_file(uploads, name, file)
                     /\ last' = [run EXCEPT !.result = "saved"]
                ELSE /\ vector_dir' = ip.vector_dir
                     /\ uploads' = uploads
                     /\ last' = [run EXCEPT !.result = "locked"]
          /\ UNCHANGED <<api_key, admin_secret, sample_docs, build>>

\* _render_admin_panel with "Rebuild knowledge base" clicked
Rebuild(s) ==
    \E embed \in InitBackend(s), embed2 \in Backend :
    \E ip \in {InitOf(s, embed)} :
    \E run \in {Started("rebuild", s, ip)} :
       \/ NoPanel("rebuild", s, ip)
       \/ /\ ip.pipeline.ready
          /\ IF AdminToolsReached(admin_secret, session[s])
                THEN \E b \in {build_vector_store(sample_docs, uploads,
                                                  ip.vector_dir, embed2)} :
                        /\ vector_dir' = b.vector_dir
                        /\ session' = [session EXCEPT
                                         ![s].pipeline = refresh_store(ip.pipeline, b)]
                        /\ last' = [run EXCEPT !.result = "refresh",
                                               !.build_ran = TRUE,
                                               !.build_result = b.result,
                                               !.build_chunks = b.chunks,
                                               !.before = ip.vector_dir]
                ELSE /\ vector_dir' = ip.vector_dir
                     /\ session' = [session EXCEPT ![s].pipeline = ip.pipeline]
                     /\ last' = [run EXCEPT !.result = "locked"]
          /\ UNCHANGED <<api_key, admin_secret, sample_docs, uploads, build>>

-----------------------------------------------------------------------------
(* rebuild_vectorstore.py *)

\* main: the rebuild command
RebuildCommand ==
    \E embed \in Backend :
       LET ensured == ensure_directories(vector_dir)
           b == build_vector_store(sample_docs, uploads, ensured, embed)
       IN /\ IF ~api_key
                THEN /\ vector_dir' = vector_dir
                     /\ last' = [Blank EXCEPT !.op = "command", !.result = "RuntimeError"]
                ELSE /\ vector_dir' = b.vector_dir
                     /\ last' = [Blank EXCEPT !.op = "command", !.result = "build",
                                              !.build_ran = TRUE,
                                              !.build_result = b.result,
                                              !.build_chunks = b.chunks,
                                              !.before = ensured]
          /\ UNCHANGED <<api_key, admin_secret, sample_docs, uploads, session, build>>

-----------------------------------------------------------------------------
NoBuild == [pc |-> "idle", chunks |-> <<>>, old |-> EmptyDir]

AdminConfigs ==
    {[st |-> None, env |-> None], [st |-> "", env |-> ""],
     [st |-> None, env |-> "adminpw"]}

Init ==
    /\ api_key \in BOOLEAN
    /\ admin_secret \in AdminConfigs
    /\ sample_docs \in [SampleNames -> {AbsentFile, TextFile(500)}]
    /\ uploads \in [UploadNames -> {AbsentFile, TextFile(500)}]
    /\ vector_dir = EmptyDir
    /\ session = [s \in Sessions |->
                    [pipeline |-> NoPipeline, admin_authenticated |-> FALSE]]
    /\ build = NoBuild
    /\ last = Blank

Next ==
    \/ \E s \in Sessions : Open(s)
    \/ \E s \in Sessions : Ask(s)
    \/ \E s \in Sessions : Unlock(s)
    \/ \E s \in Sessions : Logout(s)
    \/ \E s \in Sessions : Upload(s)
    \/ \E s \in Sessions : Rebuild(s)
    \/ RebuildCommand

Spec == Init /\ [][Next]_vars

-----------------------------------------------------------------------------
(* The pipeline object called directly: summarize_sources is a public       *)
(* method of RAGPipeline and takes the index as it is at the call.          *)

\* pipeline.summarize_sources(question, top_k) on the pipeline of session s
Summarize(s) ==
    /\ session[s].pipeline.ready
    /\ \E question \in Questions \ {""}, top_k \in TopKs,
          retr \in Backend, llm \in Backend :
       \E sm \in {summarize_sources(vector_dir.entries, question, top_k,
                                    retr, llm)} :
          last' = [Blank EXCEPT !.op = "summarize", !.session = s,
                                !.result = sm.result,
                                !.question = question, !.top_k = top_k,
                                !.summary = sm.summary,
                                !.summary_llm_calls = sm.llm_calls]
    /\ UNCHANGED <<api_key, admin_secret, sample_docs, uploads, vector_dir,
                   session, build>>

NextApi ==
    \/ Next
    \/ \E s \in Sessions : Summarize(s)

SpecApi == Init /\ [][NextApi]_vars


-----------------------------------------------------------------------------
(* The rebuild command running beside the sessions: build_vector_store one  *)
(* statement at a time, while page runs of the sessions read the directory. *)

CommandDone(result) ==
    [Blank EXCEPT !.op = "command", !.result = result]

\* main, then build_vector_store lines 82-87: the documents are loaded,
\* checked and split
CommandBegin ==
    /\ build.pc = "idle"
    /\ LET ensured == ensure_directories(vector_dir)
           lo == load_documents(sample_docs, uploads)
       IN IF ~api_key
             THEN /\ vector_dir' = vector_dir
                  /\ build' = build
                  /\ last' = CommandDone("RuntimeError")
          ELSE IF lo.raised \/ ~HasDocuments(lo.docs)
             THEN /\ vector_dir' = ensured
                  /\ build' = build
                  /\ last' = CommandDone(IF lo.raised THEN "LoadError" ELSE "ValueError")
             ELSE /\ vector_dir' = ensured
                  /\ build' = [pc |-> "rmtree", chunks |-> _split_documents(lo.docs),
                               old |-> ensured]
                  /\ last' = CommandDone("building")
    /\ UNCHANGED <<api_key, admin_secret, sample_docs, uploads, session>>

\* lines 88-89
CommandRmtree ==
    /\ build.pc = "rmtree"
    /\ vector_dir' = IF vector_dir.exists THEN rmtree(vector_dir) ELSE vector_dir
    /\ build' = [build EXCEPT !.pc = "mkdir"]
    /\ last' = CommandDone("building")
    /\ UNCHANGED <<api_key, admin_secret, sample_docs, uploads, session>>

\* line 90
CommandMkdir ==
    /\ build.pc = "mkdir"
    /\ vector_dir' = mkdir(vector_dir)
    /\ build' = [build EXCEPT !.pc = "from_documents"]
    /\ last' = CommandDone("building")
    /\ UNCHANGED <<api_key, admin_secret, sample_docs, uploads, session>>

\* line 91: Chroma.from_documents opens the collection ...
CommandOpen ==
    /\ build.pc = "from_documents"
    /\ vector_dir' = Chroma(vector_dir)
    /\ build' = [build EXCEPT !.pc = "add_texts"]
    /\ last' = CommandDone("building")
    /\ UNCHANGED <<api_key, admin_secret, sample_docs, uploads, session>>

\* ... then embeds the chunks and adds them
CommandAdd ==
    /\ build.pc = "add_texts"
    /\ \E embed \in Backend :
          IF embed = "unavailable"
             THEN /\ vector_dir' = vector_dir
                  /\ build' = NoBuild
                  /\ last' = CommandDone("BackendError")
             ELSE /\ vector_dir' = add_texts(vector_dir, build.chunks)
                  /\ build' = [build EXCEPT !.pc = "persist"]
                  /\ last' = CommandDone("building")
    /\ UNCHANGED <<api_key, admin_secret, sample_docs, uploads, session>>

\* lines 97-98: persist and return
CommandReturn ==
    /\ build.pc = "persist"
    /\ build' = NoBuild
    /\ last' = CommandDone("built")
    /\ UNCHANGED <<api_key, admin_secret, sample_docs, uploads, vector_dir, session>>

NextConc ==
    \/ CommandBegin
    \/ CommandRmtree
    \/ CommandMkdir
    \/ CommandOpen
    \/ CommandAdd
    \/ CommandReturn
    \/ \E s \in Sessions : Open(s)
    \/ \E s \in Sessions : Ask(s)

SpecConc == Init /\ [][NextConc]_vars


-----------------------------------------------------------------------------
(* Properties *)

UiOps == {"open", "ask", "unlock", "logout", "upload", "rebuild"}

\* the documents of the files on disk, and their chunks
DocsOnDisk ==
    LoadDir("sample_docs", SampleOrder, sample_docs)
    \o LoadDir("uploads", UploadOrder, uploads)

ChunksOnDisk == _split_documents(DocsOnDisk)

NoDuplicates(seq) == Cardinality(Range(seq)) = Len(seq)

\* a page run of a session that took place while the rebuild command was
\* between two statements of build_vector_store
ReadDuringBuild == build.pc # "idle" /\ last.op \in UiOps /\ last.init = "ok"

\* C1: while build_vector_store is in progress, a reader sees the complete
\* old index or the complete new one: load_vector_store reports an index
\* absent only if the old one was absent, and a query retrieves what the
\* old or the new index would return.
C1_ReaderSeesWholeIndex ==
    ReadDuringBuild =>
       /\ last.constructed = "built" => ~build.old.sqlite
       /\ (last.retrieval_calls = 1 /\ last.result # "EmbeddingError") =>
             \/ last.documents =
                  _get_documents(build.old.entries, last.question, last.top_k)
             \/ last.documents =
                  _get_documents(build.chunks, last.question, last.top_k)

LastBuildLoaded == last.build_ran /\ last.build_result # "LoadError"

\* C2: a build whose ingestion yields zero chunks fails with ValueError
\* (EmptyCorpus) and leaves the index storage location as it was.
C2_EmptyCorpusKeepsIndex ==
    (LastBuildLoaded /\ last.build_chunks = <<>>) =>
       /\ last.build_result = "ValueError"
       /\ vector_dir = last.before

\* the chunks the last "Ask CPF Bot" run retrieved, from the index as it is
Retrieved == _get_documents(vector_dir.entries, last.question, last.top_k)

QueryRan == last.op = "ask" /\ last.retrieval_calls = 1

\* C3: query fails with ValueError (NoEvidence) without any call of the
\* language model when retrieval returns no chunk.
C3_NoEvidenceNoLlmCall ==
    (QueryRan /\ last.result # "EmbeddingError" /\ Retrieved = <<>>) =>
       /\ last.result = "ValueError"
       /\ last.llm_calls = 0
       /\ last.summary_llm_calls = 0

C3_Witness ==
    /\ QueryRan
    /\ Retrieved = <<>>
    /\ last.result = "ValueError"
    /\ session[last.session].pipeline.ready

\* C4: the citations and source documents of a response are those of the
\* retrieved chunks, position by position, whatever the answer text says.
C4_CitationsFromRetrieved ==
    (QueryRan /\ last.result = "ok") =>
       /\ Len(last.response.citations) = Len(Retrieved)
       /\ Len(last.response.source_documents) = Len(Retrieved)
       /\ \A i \in DOMAIN Retrieved :
             /\ last.response.citations[i] = Retrieved[i].source
             /\ last.response.source_documents[i] = Retrieved[i].page_content

C4_Witness ==
    /\ QueryRan
    /\ last.result = "ok"
    /\ Len(Retrieved) >= 2
    /\ last.response.answer = {"bogus.md"}
    /\ last.response.citations[1] = "faq1.md"


\* a page run of session s that found no pipeline in the session and
\* therefore constructed one
Constructs(s) ==
    /\ last'.op \in UiOps
    /\ last'.session = s
    /\ api_key
    /\ ~session[s].pipeline.ready

\* C5: constructing the pipeline loads the store and builds it only when
\* load reports it absent; it ends with a pipeline in the session and an
\* index on disk, or raises (ValueError when there is neither an index nor a
\* document) and leaves the session without a pipeline and the run without
\* any panel, so nothing is asked of a pipeline that is not there.
C5_ConstructReadyOrRaise ==
    [][\A s \in Sessions :
          /\ Constructs(s) =>
                /\ last'.constructed \in {"loaded", "built"}
                /\ (last'.constructed = "built") <=> ~vector_dir.sqlite
                /\ last'.init = "ok" =>
                      /\ session'[s].pipeline.ready
                      /\ vector_dir'.sqlite
                /\ last'.init # "ok" =>
                      /\ ~session'[s].pipeline.ready
                      /\ last'.result = None
                      /\ last'.retrieval_calls = 0
                      /\ last'.llm_calls = 0
                /\ (~vector_dir.sqlite /\ DocsOnDisk = <<>>) =>
                      last'.init = "ValueError"
          /\ (last'.op \in UiOps /\ last'.session = s /\ last'.result # None) =>
                session'[s].pipeline.ready
      ]_vars

C5_Witness ==
    /\ last.op \in UiOps
    /\ last.constructed = "built"
    /\ last.init = "ValueError"
    /\ ~session[last.session].pipeline.ready
    /\ DocsOnDisk = <<>>

\* C6: chunks enter an existing index only by an explicit rebuild (the
\* "Rebuild knowledge base" button or the rebuild command) that returned;
\* a successful rebuild leaves exactly the chunks of the documents on disk
\* at that moment, whatever the index held; an upload alone changes no
\* entry; and a query returns only chunks of the index.
C6_VisibleOnlyAfterRefresh ==
    [][/\ (vector_dir.sqlite
           /\ ~(Range(vector_dir'.entries) \subseteq Range(vector_dir.entries))) =>
             /\ last'.op \in {"rebuild", "command"}
             /\ last'.build_ran
             /\ last'.build_result = "ok"
       /\ (last'.op \in {"rebuild", "command"} /\ last'.build_ran
           /\ last'.build_result = "ok") =>
             vector_dir'.entries = ChunksOnDisk
       /\ (last'.op = "rebuild" /\ last'.result = "refresh") => last'.build_ran
       /\ (last'.op = "upload" /\ vector_dir.sqlite) =>
             vector_dir'.entries = vector_dir.entries
       /\ (last'.op = "ask" /\ last'.result = "ok") =>
             Range(last'.documents) \subseteq Range(vector_dir'.entries)
      ]_vars

\* a refresh returned and the index now serves a document that was uploaded
\* after the index it replaced was built
C6_Witness ==
    /\ last.op = "rebuild"
    /\ last.build_result = "ok"
    /\ last.before.sqlite
    /\ \E c \in Range(vector_dir.entries) :
          /\ c.source \in UploadNames
          /\ c \notin Range(last.before.entries)
    /\ vector_dir.entries = ChunksOnDisk

\* C7: one unreadable file does not stop load_documents: it does not raise
\* and returns a document for every readable file.
C7_BadFileAbsorbed ==
    LET lo == load_documents(sample_docs, uploads)
    IN /\ ~lo.raised
       /\ \A n \in SampleNames :
             (sample_docs[n].present /\ sample_docs[n].readable) =>
                \E i \in DOMAIN lo.docs : lo.docs[i].source = n
       /\ \A n \in UploadNames :
             (uploads[n].present /\ uploads[n].readable) =>
                \E i \in DOMAIN lo.docs : lo.docs[i].source = n

\* C8: a call of query asks the language model at most once, exactly once
\* when it returns; a failed retrieval or a failed model call ends the call
\* at once.
C8_OneLlmCallNoRetry ==
    QueryRan =>
       /\ last.llm_calls <= 1
       /\ last.result = "ok" => last.llm_calls = 1
       /\ last.result = "EmbeddingError" => last.llm_calls = 0
       /\ last.result = "GenerationError" =>
             /\ last.llm_calls = 1
             /\ last.response = NoResponse

C8_Witness ==
    /\ QueryRan
    /\ last.result = "GenerationError"
    /\ last.llm_calls = 1

\* C9: refresh_store and _save_uploaded_file run only in a session whose
\* admin_authenticated flag is set; the flag is set only by an unlock whose
\* entry equals the configured, non-empty admin secret; "Log out" clears it.
C9_AdminGate ==
    [][\A s \in Sessions :
          /\ (last'.op = "rebuild" /\ last'.session = s /\ last'.result = "refresh") =>
                session[s].admin_authenticated
          /\ (last'.op = "upload" /\ last'.session = s /\ last'.result = "saved") =>
                session[s].admin_authenticated
          /\ (last'.session = s /\ uploads' # uploads) =>
                session[s].admin_authenticated
          /\ (last'.session = s /\ session[s].pipeline.ready
              /\ session'[s].pipeline # session[s].pipeline) =>
                session[s].admin_authenticated
          /\ (~session[s].admin_authenticated /\ session'[s].admin_authenticated) =>
                /\ last'.op = "unlock"
                /\ last'.session = s
                /\ Truthy(_get_secret(admin_secret))
                /\ last'.entered = _get_secret(admin_secret)
          /\ (last'.op = "logout" /\ last'.session = s
              /\ session[s].admin_authenticated) =>
                ~session'[s].admin_authenticated
      ]_vars

\* a session that logged out asked for a rebuild and was turned away
C9_Witness ==
    /\ last.op = "rebuild"
    /\ last.result = "locked"
    /\ ~session[last.session].admin_authenticated
    /\ \E n \in UploadNames : uploads[n].length = MaxTextLen
    /\ Truthy(_get_secret(admin_secret))

\* C10: a build over unchanged documents leaves the index as the build
\* before it left it: the same chunks, each once.
C10_RebuildIdempotent ==
    (last.build_ran /\ last.build_result = "ok"
     /\ last.before.sqlite /\ last.before.entries = ChunksOnDisk) =>
       /\ vector_dir.entries = last.before.entries
       /\ NoDuplicates(vector_dir.entries)
       /\ \A q \in Questions, k \in TopKs :
             _get_documents(vector_dir.entries, q, k)
               = _get_documents(last.before.entries, q, k)

C10_Witness ==
    /\ last.build_ran
    /\ last.build_result = "ok"
    /\ last.before.sqlite
    /\ last.before.entries = ChunksOnDisk
    /\ Len(ChunksOnDisk) >= 2
    /\ vector_dir.entries = last.before.entries

\* a call of summarize_sources whose retrieval returned
SummaryRan ==
    \/ last.op = "summarize" /\ last.result # "EmbeddingError"
    \/ last.op = "ask" /\ last.summary \notin {None, "EmbeddingError"}

\* C11: summarize_sources with an empty retrieval does not fail: it returns
\* the constant "No documents available to summarize." and asks the
\* language model nothing; with a non-empty retrieval it asks the language
\* model exactly once.
C11_SummarizeShortCircuits ==
    SummaryRan =>
       /\ Retrieved = <<>> =>
             /\ last.summary = NothingToSummarize
             /\ last.summary_llm_calls = 0
             /\ last.op = "summarize" => last.result = "ok"
       /\ Retrieved # <<>> =>
             /\ last.summary # NothingToSummarize
             /\ last.summary_llm_calls = 1

C11_Witness ==
    /\ last.op = "summarize"
    /\ session[last.session].pipeline.ready
    /\ vector_dir.sqlite
    /\ Retrieved = <<>>
    /\ last.summary = NothingToSummarize
    /\ last.summary_llm_calls = 0

\* a "Rebuild knowledge base" run of session s whose refresh_store ended
FailedRefresh(s) ==
    /\ last'.op = "rebuild"
    /\ last'.session = s
    /\ last'.result = "refresh"
    /\ last'.build_result # "ok"

\* C12: a refresh_store whose build_vector_store raises leaves the
\* pipeline as it was: vector_store is the handle it was before the call and
\* the pipeline stays ready; once a pipeline is constructed it stays ready,
\* and its handle is replaced only by a refresh_store that returned.
C12_FailedRefreshKeepsHandle ==
    [][\A s \in Sessions :
          /\ FailedRefresh(s) =>
                /\ session[s].pipeline.ready
                /\ session'[s].pipeline = session[s].pipeline
          /\ session[s].pipeline.ready => session'[s].pipeline.ready
          /\ (session[s].pipeline.ready
              /\ session'[s].pipeline.vector_store
                   # session[s].pipeline.vector_store) =>
                /\ last'.op = "rebuild"
                /\ last'.session = s
                /\ last'.result = "refresh"
                /\ last'.build_result = "ok"
      ]_vars

\* a refresh failed at the embedding step after the old index was deleted:
\* the session keeps the handle an earlier refresh gave it
C12_Witness ==
    /\ last.op = "rebuild"
    /\ last.result = "refresh"
    /\ last.build_result = "BackendError"
    /\ last.before.entries # <<>>
    /\ vector_dir.entries = <<>>
    /\ session[last.session].pipeline.ready
    /\ session[last.session].pipeline.vector_store = FreshStore(FreshStore(0))

====
